---- MODULE Spec2Model ----
(***************************************************************************)
(* The climate-data pipeline of streamlit_app.py: the cached loader        *)
(* load_climate_data (remote CSV, quality check, synthetic fallback), the  *)
(* retry button that clears the cache, and the climate section's view pass *)
(* (year-range filter, top-N countries, the two chart calls).              *)
(*                                                                         *)
(* Numbers: emissions are integers.  A remote cell is in million tonnes,   *)
(* the loader multiplies by 1000.  The synthetic generator's factors       *)
(* (trend, covid effect, noise) are in units of 1e-4; every base emission  *)
(* is a multiple of 10000, so base * (1 + f) is (base \div 10000) * (10000 *)
(* + f) exactly.                                                           *)
(***************************************************************************)
EXTENDS Integers, Sequences, FiniteSets, TLC

VARIABLES
    pc,             \* position of the script: "idle", "fetching", "loaded"
    remote,         \* how the remote host treats the request in flight
    now,            \* wall clock, seconds
    cache,          \* st.cache_data: the set of cached entries
    invalidated,    \* history: the cache was cleared and nothing cached since
    rng,            \* numpy's global generator: [seed, pos]
    fetched,        \* history: what the last remote attempt received
    attempts,       \* history: the sources the last call of the body tried
    raised,         \* an exception left load_climate_data
    status,         \* the st.info / st.success / st.warning messages shown
    climate_df,     \* line 357: the table load_climate_data returned
    is_real_data,   \* line 357: its provenance flag
    view,           \* the climate section's locals after the view pass
    samples,        \* history: the distinct tables the generator has built
    sample_calls,   \* history: how often the generator ran (counted to a bound)
    last_result     \* history: flag and time of the body's last return

vars == <<pc, remote, now, cache, invalidated, rng, fetched, attempts, raised,
          status, climate_df, is_real_data, view, samples, sample_calls,
          last_result>>

hist == <<samples, sample_calls, last_result>>

Range(s) == {s[i] : i \in DOMAIN s}

Max(a, b) == IF a >= b THEN a ELSE b

(***************************************************************************)
(* Program constants.                                                      *)
(***************************************************************************)
YearMin == 2000
YearMax == 2022
MinRecords == 500
UnitFactor == 1000
CacheTtl == 3600
MinEmission == 10000
Seed == 42

\* pandas' missing value; every comparison with it is false.
NaN == -999999

(***************************************************************************)
(* Bounds of the model.                                                    *)
(***************************************************************************)
MaxTime == 5400
MaxSampleCalls == 2
TickStep == 1800

(***************************************************************************)
(* The synthetic generator, create_sample_climate_data.                    *)
(***************************************************************************)
\* range(2000, 2022) in place of range(2000, 2023): the last year is left out
years_without_last == [i \in 1..(YearMax - YearMin) |-> YearMin + i - 1]

years == [i \in 1..(YearMax - YearMin + 1) |-> YearMin + i - 1]

countries ==
    <<"USA", "China", "India", "Germany", "Japan", "South Korea",
      "Brazil", "Canada", "Russia", "Australia", "United Kingdom",
      "France", "Italy", "Mexico", "Indonesia">>

base_emissions ==
    ("USA" :> 5000000) @@ ("China" :> 9000000) @@ ("India" :> 2200000) @@
    ("Germany" :> 750000) @@ ("Japan" :> 1150000) @@ ("South Korea" :> 580000) @@
    ("Brazil" :> 450000) @@ ("Canada" :> 520000) @@ ("Russia" :> 1650000) @@
    ("Australia" :> 410000) @@ ("United Kingdom" :> 400000) @@ ("France" :> 330000) @@
    ("Italy" :> 320000) @@ ("Mexico" :> 460000) @@ ("Indonesia" :> 610000)

\* np.random.normal(0, 0.03) after np.random.seed(42), draw by draw, in units
\* of 1e-4 (rounded): numpy's legacy stream (MT19937 seeded by init_genrand,
\* polar Box-Muller), 0.03 * <<0.4967, -0.1383, 0.6477, 1.5230, ...>>.
NormalStream42 ==
    <<
      149, -41, 194, 457, -70, -70, 474, 230, -141, 163, -139, -140, 73, -574, -517,
      -169, -304, 94, -272, -424, 440, -68, 20, -427, -163, 33, -345, 113, -180, -88,
      -181, 556, -4, -317, 247, -366, 63, -588, -398, 59, 222, 51, -35, -90, -444,
      -216, -138, 317, 103, -529, 97, -116, -203, 184, 309, 279, -252, -93, 99, 293,
      -144, -56, -332, -359, 244, 407, -22, 301, 108, -194, 108, 461, -11, 469, -786,
      247, 26, -90, 28, -596, -66, 107, 443, -155, -243, -151, 275, 99, -159, 154,
      29, 291, -211, -98, -118, -439, 89, 78, 2, -70, -425, -126, -103, -241, -48,
      121, 566, 52, 77, -22, -576, -8, 18, 739, -58, 90, -10, -351, 343, 226,
      237, -273, 421, -421, 176, 657, -297, -170, 30, -151, -465, 21, -319, 142, -276,
      465, -235, -97, 244, -369, 68, 392, -482, 55, 78, 235, -371, -396, 157, 89,
      75, 104, -204, 70, 88, -214, 560, 142, -357, 197, -292, 236, 348, -246, 289,
      124, 247, 569, -74, -226, -267, -245, -23, 102, 83, 248, 4, 436, -79, 816,
      188, -257, -321, 145, -67, 214, 142, -22, -254, -454, -134, 257, 64, -374, 52,
      116, -265, 46, 17, -343, 107, 168, 325, 316, -413, -281, 155, 154, 155, 1156,
      171, 341, 286, 195, -95, 228, -232, -71, -146, 25, 694, -560, 206, -484, -142,
      327, 19, -323, -215, 204, -219, 65, 14, -195, 643, 190, -608, 56, -199, 256,
      -238, -34, 151, 260, -360, -100, -142, -196, 530, 121, -378, 275, 637, 310, -456,
      -145, 380, -212, 133, 232, -278, -18, -972, -307, -76, -374, 490, -429, -132, 39,
      432, -431, 349, 3, -294, 139, 60, -180, 21, -116, 34, 199, 476, -371, 640,
      -586, -46, 176, 84, -187, -62, -148, -177, 255, 107, -208, 270, 92, 244, 189,
      -249, -168, 224, 183, -6, 35, 383, -177, 164, -61, -65, 330, 248, 244, 392,
      6, 205, -93, 97, -39, 29, 179, -245, 628, -302, -364, 347, 237, 187, 189,
      -4, -269, 23, -203, 293, -44, -248, -96, 124, -169, -247, 73, 73, -152, -141
    >>

\* np.random.seed(s)
SeedRng(s) == [seed |-> s, pos |-> 0]

\* The value np.random.normal(0, 0.03) draws in generator state g.  Only the
\* stream of seed 42 is tabulated; any other state draws from a stand-in
\* stream within three to four standard deviations.
NormalAt(g) ==
    IF g.seed = Seed /\ g.pos < Len(NormalStream42)
    THEN NormalStream42[g.pos + 1]
    ELSE ((g.seed * 131 + g.pos * 37) % 2001) - 1000

trend(country, year) ==
    IF country \in {"China", "India", "Indonesia", "Mexico"}
    THEN (year - 2000) * 250
    ELSE IF country \in {"USA", "Germany", "Japan", "United Kingdom", "France"}
         THEN 0 - (year - 2000) * 150
         ELSE (year - 2000) * 50

covid_effect(year) == IF year = 2020 THEN 0 - 1000 ELSE 0

\* lines 170-174: one record, with the noise drawn in generator state g
SampleRecord(country, year, g) ==
    LET base == base_emissions[country]
        value == (base \div 10000)
                   * (10000 + trend(country, year) + covid_effect(year) + NormalAt(g))
    IN  [country |-> country, year |-> year,
         co2_emissions |-> Max(MinEmission, value)]

\* the generator without line 146: it draws from wherever the global generator is
create_sample_unseeded(g0) ==
    LET ny == Len(years)
        n == Len(countries) * ny
    IN  [data |-> [k \in 1..n |->
                     SampleRecord(countries[((k - 1) \div ny) + 1],
                                  years[((k - 1) % ny) + 1],
                                  [g0 EXCEPT !.pos = g0.pos + k - 1])],
         rng |-> [g0 EXCEPT !.pos = g0.pos + n]]

\* The generator called with numpy's global generator in state g0: the table,
\* and the state it leaves the generator in.  Record k (country by country,
\* year by year) takes draw k after the seeding.
create_sample_climate_data(g0) ==
    LET g == SeedRng(Seed)
        ny == Len(years)
        n == Len(countries) * ny
    IN  [data |-> [k \in 1..n |->
                     SampleRecord(countries[((k - 1) \div ny) + 1],
                                  years[((k - 1) % ny) + 1],
                                  [g EXCEPT !.pos = g.pos + k - 1])],
         rng |-> [g EXCEPT !.pos = g.pos + n]]

(***************************************************************************)
(* The remote source: what pd.read_csv(owid_url) can receive.  A table is  *)
(* [columns, dtype, rows]; a row is [country, year, co2].  The tables are  *)
(* built from shapes, so that the state holds a shape and not 800 rows.    *)
(***************************************************************************)
Aggregates ==
    {"World", "Asia", "Europe", "Africa", "North America", "South America",
     "Oceania", "High-income countries", "Low-income countries",
     "Middle-income countries", "Upper-middle-income countries"}

RemoteCountries ==
    <<"China", "United States", "India", "Russia", "Japan", "Iran", "Germany",
      "Saudi Arabia", "Indonesia", "South Korea", "Canada", "Brazil", "Turkey",
      "South Africa", "Mexico", "Australia", "United Kingdom", "Vietnam",
      "Italy", "Poland", "France", "Thailand", "Egypt", "Malaysia", "Spain",
      "Pakistan", "Kazakhstan", "Argentina", "Ukraine", "Iraq">>

ExpectedColumns == {"country", "year", "co2"}

\* One shape per kind of answer the loader distinguishes:
\*   full      aggregates on top, years outside 2000..2022, 5 unusable cells:
\*             22 * 23 - 5 = 501 usable records
\*   short     2000..2022 only, 6 unusable cells: 500 usable records
\*   stale     25 countries, the series ends in 2021: 550 records, none of 2022
\*   renamed   the metric column is not called co2
\*   old       30 countries, 1990..2010: 630 positive records, 330 of them in range
\*   repeated  24 countries, the top emitter's rows of 2021 and 2022 twice
\*   textual   the co2 column parsed as text
Shapes ==
    { [id |-> "full", columns |-> ExpectedColumns, dtype |-> "float64",
       aggs |-> <<"World", "Asia", "High-income countries">>, nc |-> 22,
       lo |-> 1998, hi |-> 2022, bad |-> 5, dup |-> 0],
      [id |-> "short", columns |-> ExpectedColumns, dtype |-> "float64",
       aggs |-> <<"World", "Asia", "High-income countries">>, nc |-> 22,
       lo |-> 2000, hi |-> 2022, bad |-> 6, dup |-> 0],
      [id |-> "stale", columns |-> ExpectedColumns \cup {"iso_code"}, dtype |-> "float64",
       aggs |-> <<>>, nc |-> 25, lo |-> 2000, hi |-> 2021, bad |-> 0, dup |-> 0],
      [id |-> "renamed", columns |-> {"country", "year", "co2_mt"}, dtype |-> "float64",
       aggs |-> <<"World">>, nc |-> 24, lo |-> 2000, hi |-> 2022, bad |-> 0, dup |-> 0],
      [id |-> "old", columns |-> ExpectedColumns, dtype |-> "float64",
       aggs |-> <<>>, nc |-> 30, lo |-> 1990, hi |-> 2010, bad |-> 0, dup |-> 0],
      [id |-> "repeated", columns |-> ExpectedColumns, dtype |-> "float64",
       aggs |-> <<"Europe">>, nc |-> 24, lo |-> 2000, hi |-> 2022, bad |-> 0, dup |-> 2],
      [id |-> "textual", columns |-> ExpectedColumns, dtype |-> "object",
       aggs |-> <<>>, nc |-> 24, lo |-> 2000, hi |-> 2022, bad |-> 0, dup |-> 0] }

\* The cell of entity number e (aggregates first, then countries by falling
\* emissions) in year y.  The first s.bad countries have an unusable cell in
\* 2005: missing, zero or negative in turn.
RemoteCell(s, e, y) ==
    LET na == Len(s.aggs)
        c == e - na
    IN  IF e <= na THEN 100000 - 1000 * e + (y - 1990)
        ELSE IF y = 2005 /\ c <= s.bad
             THEN CASE c % 3 = 1 -> NaN
                    [] c % 3 = 2 -> 0
                    [] OTHER -> 0 - 5
             ELSE 50 * (31 - c) + (y - 1990)

RemoteEntity(s, e) ==
    IF e <= Len(s.aggs) THEN s.aggs[e] ELSE RemoteCountries[e - Len(s.aggs)]

RemoteRows(s) ==
    LET ny == s.hi - s.lo + 1
        ne == Len(s.aggs) + s.nc
        top == Len(s.aggs) + 1
    IN  [k \in 1..(ne * ny) |->
           LET e == ((k - 1) \div ny) + 1
               y == s.lo + ((k - 1) % ny)
           IN  [country |-> RemoteEntity(s, e), year |-> y, co2 |-> RemoteCell(s, e, y)]]
        \o
        [k \in 1..s.dup |->
           [country |-> RemoteEntity(s, top), year |-> s.hi - k + 1,
            co2 |-> RemoteCell(s, top, s.hi - k + 1)]]

\* Every table the remote can answer with, built once.
RemoteTable ==
    [id \in {s.id : s \in Shapes} |->
       LET s == CHOOSE x \in Shapes : x.id = id
       IN  [columns |-> s.columns, dtype |-> s.dtype, rows |-> RemoteRows(s)]]

\* What the request can end in: a parsed table, or an exception out of
\* pd.read_csv (no connection, an HTTP error status, a body that is no CSV).
FetchErrors == {"URLError", "HTTPError", "ParserError"}

Responses ==
    {[kind |-> "table", id |-> s.id] : s \in Shapes}
      \cup {[kind |-> "raise", exc |-> e] : e \in FetchErrors}

NoResponse == [kind |-> "none"]

(***************************************************************************)
(* load_climate_data, lines 119-143.                                       *)
(***************************************************************************)
\* line 125
HasExpectedColumns(t) ==
    "country" \in t.columns /\ "year" \in t.columns /\ "co2" \in t.columns

\* lines 126-130
DropAggregates(rows) == SelectSeq(rows, LAMBDA r : r.country \notin Aggregates)

\* lines 131-132
RenameMetric(rows) ==
    [i \in DOMAIN rows |->
       [country |-> rows[i].country, year |-> rows[i].year,
        co2_emissions |-> rows[i].co2]]

\* line 133
DropNa(rows) == SelectSeq(rows, LAMBDA r : r.co2_emissions # NaN)

\* >= 0 in place of > 0 in line 134
NonNegativeOnly(rows) == SelectSeq(rows, LAMBDA r : r.co2_emissions >= 0)

\* line 134
PositiveOnly(rows) == SelectSeq(rows, LAMBDA r : r.co2_emissions > 0)

\* line 135
HistoricalYears(rows) ==
    SelectSeq(rows, LAMBDA r : r.year # NaN /\ r.year >= YearMin /\ r.year <= YearMax)

\* line 136
ConvertUnits(rows) ==
    [i \in DOMAIN rows |->
       [rows[i] EXCEPT !.co2_emissions = rows[i].co2_emissions * UnitFactor]]

\* >= 500 in place of > 500 in line 137
AtLeastMinRecords(rows) == Len(rows) >= MinRecords

\* line 137
EnoughRecords(rows) == Len(rows) > MinRecords

\* a handler for the request's errors only (except OSError)
CatchesRequestErrors(exc) == exc \in {"URLError", "HTTPError"}

\* line 140: the handler's class is Exception, the base of all of these
Catches(exc) == exc \in FetchErrors \cup {"TypeError"}

\* Lines 124-139, the try block from the response on: it returns the live
\* table, raises, or falls out of the block.  A text column against 0 in
\* line 134 raises TypeError.
TryBlock(resp) ==
    IF resp.kind = "raise" THEN [kind |-> "raise", exc |-> resp.exc]
    ELSE LET t == RemoteTable[resp.id]
         IN  IF ~HasExpectedColumns(t) THEN [kind |-> "fall"]
             ELSE IF t.dtype = "object" THEN [kind |-> "raise", exc |-> "TypeError"]
             ELSE LET climate ==
                        ConvertUnits(HistoricalYears(PositiveOnly(DropNa(
                            RenameMetric(DropAggregates(t.rows))))))
                  IN  IF EnoughRecords(climate)
                      THEN [kind |-> "return", df |-> climate]
                      ELSE [kind |-> "fall"]

\* The try block's outcome for every response, computed once.
TryOutcome == [resp \in Responses |-> TryBlock(resp)]

\* The body from the response on, with the generator in state g: the result
\* (or the exception that leaves the function), the messages shown after
\* line 122's, the source used after the remote one, the generator's state.
LoadBody(resp, g) ==
    LET try == TryOutcome[resp]
        sample == create_sample_climate_data(g)
        fallback(msgs) ==
            [raised |-> FALSE, df |-> sample.data, flag |-> FALSE,
             msgs |-> msgs \o <<"warning: using sample data">>,
             used |-> <<"sample">>, rng |-> sample.rng]
    IN  CASE try.kind = "return" ->
               [raised |-> FALSE, df |-> try.df, flag |-> TRUE,
                msgs |-> <<"success: OWID loaded">>, used |-> <<>>, rng |-> g]
          [] try.kind = "raise" /\ Catches(try.exc) ->
               fallback(<<"warning: OWID load failed">>)
          [] try.kind = "raise" /\ ~Catches(try.exc) ->
               [raised |-> TRUE, df |-> <<>>, flag |-> FALSE, msgs |-> <<>>,
                used |-> <<>>, rng |-> g]
          [] OTHER -> fallback(<<>>)

(***************************************************************************)
(* st.cache_data(ttl=3600), line 119, and its clear(), line 90.  The       *)
(* function takes no arguments, so it has one key.  An entry also holds    *)
(* the messages the body showed: a cache hit shows them again.             *)
(***************************************************************************)
CacheKey == "load_climate_data()"

\* an entry kept alive through the last second of its time-to-live
CacheLookupInclusive(c, k, t) == {e \in c : e.key = k /\ t - e.at <= CacheTtl}

\* a store that keeps live results only
CacheStoreLiveOnly(c, entry) ==
    IF entry.flag THEN {e \in c : e.key # entry.key} \cup {entry} ELSE c

\* the entries of key k that are still alive at time t
CacheLookup(c, k, t) == {e \in c : e.key = k /\ t - e.at < CacheTtl}

CacheStore(c, entry) == {e \in c : e.key # entry.key} \cup {entry}

\* st.cache_data.clear()
CacheClear(c) == {}

(***************************************************************************)
(* The climate section's view pass, lines 359-403.                         *)
(***************************************************************************)
YearStops == {2000, 2015, 2021, 2022}
TopNChoices == {5, 10, 15, 20}

\* the range filter without its lower bound
FilterByUpperYear(df, lo, hi) == SelectSeq(df, LAMBDA r : r.year <= hi)

\* lines 360-363
FilterByYearRange(df, lo, hi) ==
    SelectSeq(df, LAMBDA r : r.year >= lo /\ r.year <= hi)

\* Series.max(): NaN for an empty column
SeriesMax(s) ==
    IF s = {} THEN NaN ELSE CHOOSE m \in s : \A x \in s : x <= m

\* df[df['year'] == y]: NaN equals nothing
AtYear(df, y) == SelectSeq(df, LAMBDA r : y # NaN /\ r.year = y)

\* DataFrame.nlargest(n, 'co2_emissions'): the n rows of largest metric, by
\* falling metric, equal metrics in the table's order (keep='first')
nlargest(df, n) ==
    LET m == Len(df)
        rank == [i \in 1..m |->
                   1 + Cardinality({j \in 1..m :
                         \/ df[j].co2_emissions > df[i].co2_emissions
                         \/ df[j].co2_emissions = df[i].co2_emissions /\ j < i})]
        k == IF n < m THEN n ELSE m
    IN  [p \in 1..k |-> df[CHOOSE i \in 1..m : rank[i] = p]]

\* line 366
TopCountries(df, latest_year, n) ==
    LET top == nlargest(AtYear(df, latest_year), n)
    IN  [p \in DOMAIN top |-> top[p].country]

\* line 367
RestrictToCountries(df, top_countries) ==
    SelectSeq(df, LAMBDA r : r.country \in Range(top_countries))

NoView ==
    [ran |-> FALSE, year_range |-> <<YearMin, YearMax>>, top_countries_n |-> 0,
     in_range |-> 0, latest_year |-> NaN, top_countries |-> <<>>,
     filtered_df |-> <<>>, charts |-> <<>>]

\* Lines 359-403 on table df: the locals the pass ends with and the chart
\* calls it made (in_range: the number of rows the range filter kept).
ViewPass(df, lo, hi, n) ==
    IF df = <<>>
    THEN [NoView EXCEPT !.ran = TRUE, !.year_range = <<lo, hi>>, !.top_countries_n = n]
    ELSE LET ranged == FilterByYearRange(df, lo, hi)
             latest_year == SeriesMax({ranged[i].year : i \in DOMAIN ranged})
             top_countries == TopCountries(ranged, latest_year, n)
             filtered_df == RestrictToCountries(ranged, top_countries)
             latest_data == AtYear(filtered_df, latest_year)
         IN  [ran |-> TRUE, year_range |-> <<lo, hi>>, top_countries_n |-> n,
              in_range |-> Len(ranged), latest_year |-> latest_year,
              top_countries |-> top_countries, filtered_df |-> filtered_df,
              charts |-> << [call |-> "px.line", rows |-> Len(filtered_df)],
                            [call |-> "px.pie", rows |-> Len(latest_data),
                             title_year |-> latest_year] >>]

(***************************************************************************)
(* The state machine.                                                      *)
(***************************************************************************)
Init ==
    /\ pc = "idle"
    /\ remote = "none"
    /\ now = 0
    /\ cache = {}
    /\ invalidated = FALSE
    /\ rng \in {SeedRng(7), SeedRng(1234)}
    /\ fetched = NoResponse
    /\ attempts = <<>>
    /\ raised = FALSE
    /\ status = <<>>
    /\ climate_df = <<>>
    /\ is_real_data = FALSE
    /\ view = NoView
    /\ samples = {}
    /\ sample_calls = 0
    /\ last_result = <<>>

\* Line 357 with a live cache entry: the cached pair is returned and the
\* body does not run.
ResolveHit ==
    /\ pc = "idle"
    /\ CacheLookup(cache, CacheKey, now) # {}
    /\ LET e == CHOOSE x \in CacheLookup(cache, CacheKey, now) : TRUE
       IN  /\ climate_df' = e.df
           /\ is_real_data' = e.flag
           /\ status' = e.msgs
    /\ pc' = "loaded"
    /\ attempts' = <<>>
    /\ fetched' = NoResponse
    /\ raised' = FALSE
    /\ view' = NoView
    /\ UNCHANGED <<remote, now, cache, invalidated, rng, hist>>

\* Line 357 without one: the body starts, shows line 122's message and sends
\* the request of line 124, which the remote host answers or never answers.
ResolveMiss ==
    /\ pc = "idle"
    /\ CacheLookup(cache, CacheKey, now) = {}
    /\ pc' = "fetching"
    /\ remote' \in {"answers", "silent"}
    /\ status' = <<"info: loading OWID">>
    /\ attempts' = <<"owid">>
    /\ fetched' = NoResponse
    /\ raised' = FALSE
    /\ climate_df' = <<>>
    /\ is_real_data' = FALSE
    /\ view' = NoView
    /\ UNCHANGED <<now, cache, invalidated, rng, hist>>

\* pd.read_csv comes back (a table or an exception) and the body runs to its
\* end; the pair it returns is cached and handed to line 357.
FetchReturns(resp) ==
    /\ pc = "fetching"
    /\ remote = "answers"
    /\ LET r == LoadBody(resp, rng)
       IN  /\ raised' = r.raised
           /\ rng' = r.rng
           /\ attempts' = attempts \o r.used
           /\ status' = status \o r.msgs
           /\ IF r.raised
              THEN /\ pc' = "idle"
                   /\ UNCHANGED <<cache, invalidated, climate_df, is_real_data,
                                  hist>>
              ELSE /\ pc' = "loaded"
                   /\ invalidated' = FALSE
                   /\ climate_df' = r.df
                   /\ is_real_data' = r.flag
                   /\ cache' = CacheStore(cache,
                          [key |-> CacheKey, df |-> r.df, flag |-> r.flag,
                           msgs |-> status \o r.msgs, at |-> now])
                   /\ last_result' = <<[flag |-> r.flag, at |-> now]>>
                   /\ IF r.used = <<"sample">>
                      THEN /\ samples' = samples \cup {r.df}
                           /\ sample_calls' =
                                 IF sample_calls < MaxSampleCalls
                                 THEN sample_calls + 1 ELSE sample_calls
                      ELSE UNCHANGED <<samples, sample_calls>>
    /\ fetched' = resp
    /\ remote' = "none"
    /\ UNCHANGED <<now, view>>

\* lines 359-403 with the sidebar's year range and top-N choice
View(lo, hi, n) ==
    /\ pc = "loaded"
    /\ view' = ViewPass(climate_df, lo, hi, n)
    /\ pc' = "idle"
    /\ UNCHANGED <<remote, now, cache, invalidated, rng, fetched, attempts,
                   raised, status, climate_df, is_real_data, hist>>

\* lines 89-91: the retry button clears the cache and reruns the script
RetryButton ==
    /\ pc = "idle"
    /\ cache' = CacheClear(cache)
    /\ invalidated' = TRUE
    /\ UNCHANGED <<pc, remote, now, rng, fetched, attempts, raised, status,
                   climate_df, is_real_data, view, hist>>

\* time passes, whatever the script is doing
Tick ==
    /\ now + TickStep <= MaxTime
    /\ now' = now + TickStep
    /\ UNCHANGED <<pc, remote, cache, invalidated, rng, fetched, attempts,
                   raised, status, climate_df, is_real_data, view, hist>>

Next ==
    \/ ResolveHit
    \/ ResolveMiss
    \/ \E resp \in Responses : FetchReturns(resp)
    \/ \E lo \in YearStops, hi \in YearStops, n \in TopNChoices :
          lo <= hi /\ View(lo, hi, n)
    \/ RetryButton
    \/ Tick

Spec == Init /\ [][Next]_vars

(***************************************************************************)
(* What the claims speak of.                                               *)
(***************************************************************************)
\* load_climate_data has returned to line 357
Returned == pc = "loaded"

\* ... and this call ran the body (it was no cache hit)
BodyRan == Returned /\ attempts # <<>>

\* The remote table's records that are usable as the specification counts
\* them: no aggregate entity, a metric that is a number and positive.
UsableRows(t) ==
    SelectSeq(t.rows, LAMBDA r :
        /\ r.country \notin Aggregates
        /\ t.dtype = "float64"
        /\ r.co2 # NaN
        /\ r.co2 > 0)

\* The minimum-quality predicate as the specification states it.
QualityOk(t) == ExpectedColumns \subseteq t.columns /\ Len(UsableRows(t)) > 500

\* The remote attempt of this call failed: an error, or a table below quality.
RemoteFailed ==
    \/ fetched.kind = "raise"
    \/ fetched.kind = "table" /\ ~QualityOk(RemoteTable[fetched.id])

YearsOf(df) == {df[i].year : i \in DOMAIN df}

EntitiesOf(df) == {df[i].country : i \in DOMAIN df}

(***************************************************************************)
(* C1.                                                                     *)
(***************************************************************************)
\* C1 as stated: whenever the remote attempt failed, load_climate_data returns
\* a non-empty synthetic table, flagged False, of at least 500 records that
\* cover every year 2000..2022.
C1_SyntheticAtLeast500 ==
    (BodyRan /\ RemoteFailed) =>
        /\ climate_df # <<>>
        /\ is_real_data = FALSE
        /\ Len(climate_df) >= 500
        /\ \A y \in 2000..2022 : y \in YearsOf(climate_df)

\* C1 amended: whenever load_climate_data returns after a failed remote
\* attempt, it returns a non-empty synthetic table, flagged False, of exactly
\* 345 records (15 countries, 23 years each) that cover every year 2000..2022.
C1_Synthetic345 ==
    (BodyRan /\ RemoteFailed) =>
        /\ climate_df # <<>>
        /\ is_real_data = FALSE
        /\ Len(climate_df) = 345
        /\ Cardinality(EntitiesOf(climate_df)) = 15
        /\ \A y \in 2000..2022 : y \in YearsOf(climate_df)

\* C1 witness: the request raised and the synthetic table came back.
C1_Witness ==
    /\ BodyRan
    /\ fetched = [kind |-> "raise", exc |-> "URLError"]
    /\ is_real_data = FALSE
    /\ Len(climate_df) = 345

(***************************************************************************)
(* C2.                                                                     *)
(***************************************************************************)
\* C2: the body tries the primary remote source, then, exactly when that
\* failed, the secondary remote source, and generates the synthetic table
\* only after both failed.
C2_SecondaryAfterPrimary ==
    BodyRan =>
        /\ attempts[1] = "owid"
        /\ is_real_data => attempts \in {<<"owid">>, <<"owid", "worldbank">>}
        /\ ~is_real_data => attempts = <<"owid", "worldbank", "sample">>

(***************************************************************************)
(* C3.                                                                     *)
(***************************************************************************)
\* C3: no call of load_climate_data blocks for ever: while it waits for the
\* remote host, a step that ends the wait (an answer, or a timeout that counts
\* as a failed attempt) is always possible, also when the host never answers.
C3_WaitCanEnd ==
    (pc = "fetching") => ENABLED (\E resp \in Responses : FetchReturns(resp))

(***************************************************************************)
(* C4.                                                                     *)
(***************************************************************************)
\* C4: no exception leaves load_climate_data; whatever the remote attempt
\* ended in, it returns a non-empty table and a boolean flag.
C4_NeverRaises ==
    /\ ~raised
    /\ BodyRan => (fetched \in Responses /\ climate_df # <<>> /\ is_real_data \in BOOLEAN)
    /\ Returned => climate_df # <<>>

\* C4 witness: the co2 column came as text, line 134 raised TypeError, and the
\* call still returned a table.
C4_Witness ==
    /\ BodyRan
    /\ fetched = [kind |-> "table", id |-> "textual"]
    /\ status = <<"info: loading OWID", "warning: OWID load failed",
                  "warning: using sample data">>
    /\ climate_df # <<>>

(***************************************************************************)
(* C5.                                                                     *)
(***************************************************************************)
\* C5: every record of every returned table, live or synthetic, has a
\* positive metric and a year within 2000..2022.
C5_RecordsValid ==
    Returned =>
        \A i \in DOMAIN climate_df :
            /\ climate_df[i].co2_emissions > 0
            /\ climate_df[i].year \in 2000..2022

\* C5 witness: a live table came back from a response that held missing, zero
\* and negative cells and years before 2000.
C5_Witness ==
    /\ Returned
    /\ is_real_data
    /\ fetched = [kind |-> "table", id |-> "full"]
    /\ Len(climate_df) = 501

(***************************************************************************)
(* C6.                                                                     *)
(***************************************************************************)
\* C6: the call returns the remote table flagged True only if the response
\* has the columns country, year and co2 and more than 500 usable records;
\* otherwise it returns the synthetic table flagged False; and no returned
\* live record names an aggregate entity.
C6_LiveOnlyIfQuality ==
    /\ BodyRan =>
         /\ is_real_data =>
              (fetched.kind = "table" /\ QualityOk(RemoteTable[fetched.id]))
         /\ RemoteFailed =>
              (~is_real_data /\ attempts = <<"owid", "sample">>
                 /\ EntitiesOf(climate_df) = Range(countries))
    /\ (Returned /\ is_real_data) => EntitiesOf(climate_df) \cap Aggregates = {}

\* C6 witness: a response of exactly 500 usable records, answered with the
\* synthetic table.
C6_Witness ==
    /\ BodyRan
    /\ fetched = [kind |-> "table", id |-> "short"]
    /\ Len(UsableRows(RemoteTable["short"])) = 500
    /\ ~is_real_data

(***************************************************************************)
(* C7.                                                                     *)
(***************************************************************************)
\* a step in which line 357 is answered from the cache
ServedFromCache == pc = "idle" /\ pc' = "loaded"

\* a step in which line 357 starts the body
BodyStarted == pc = "idle" /\ pc' = "fetching"

\* C7: a cached result is served only while it is younger than 3600 s and the
\* cache has not been cleared since it was stored; the retry button empties
\* the cache; so the first call after a clearing, and the first call once the
\* entry is 3600 s old, starts the body again with the remote attempt.
C7_CacheBounded ==
    [][ /\ ServedFromCache =>
            /\ ~invalidated
            /\ \E e \in cache :
                  /\ now - e.at < 3600
                  /\ climate_df' = e.df
                  /\ is_real_data' = e.flag
        /\ (invalidated' /\ ~invalidated) => cache' = {}
        /\ (pc = "idle" /\ pc' # "idle"
              /\ (invalidated \/ \A e \in cache : now - e.at >= 3600)) =>
            /\ BodyStarted
            /\ attempts' = <<"owid">>
            /\ climate_df' = <<>>
      ]_vars

\* C7 witness: the body runs again while the cache still holds the entry that
\* has outlived its 3600 s.
C7_Witness ==
    /\ pc = "fetching"
    /\ attempts = <<"owid">>
    /\ \E e \in cache : e.df # <<>> /\ now - e.at >= 3600

(***************************************************************************)
(* C8.                                                                     *)
(***************************************************************************)
\* the view pass has run on a non-empty table
Viewed == view.ran /\ climate_df # <<>>

\* the records of the resolved table within the chosen year range
InRange ==
    SelectSeq(climate_df, LAMBDA r :
        view.year_range[1] <= r.year /\ r.year <= view.year_range[2])

\* the entities with a record at the reference period, the latest year in range
EntitiesAtReference ==
    LET rows == InRange
        ys == YearsOf(rows)
    IN  {rows[i].country : i \in {j \in DOMAIN rows : \A y \in ys : y <= rows[j].year}}

\* C8: the table the view pass keeps holds at most n distinct entities, and
\* fewer than n only if fewer than n distinct entities have a record at the
\* reference period.
C8_TopNEntities ==
    Viewed =>
        LET kept == Cardinality(EntitiesOf(view.filtered_df))
        IN  /\ kept <= view.top_countries_n
            /\ kept < view.top_countries_n =>
                  Cardinality(EntitiesAtReference) < view.top_countries_n

(***************************************************************************)
(* C9.                                                                     *)
(***************************************************************************)
\* C9: when the year-range filter leaves no record of a non-empty table, the
\* view pass makes no chart call.
C9_NothingRendered ==
    (Viewed /\ InRange = <<>>) => view.charts = <<>>

(***************************************************************************)
(* C10.                                                                    *)
(***************************************************************************)
\* C10: with a lower bound above every year of the table, the range filter
\* keeps nothing, the top-N list is empty, and so is the restricted table;
\* the pass runs through (its reference year is the missing value).
C10_EmptyRange ==
    (Viewed /\ \A y \in YearsOf(climate_df) : y < view.year_range[1]) =>
        /\ view.in_range = 0
        /\ view.latest_year = NaN
        /\ view.top_countries = <<>>
        /\ view.filtered_df = <<>>
        /\ ~raised

\* C10 witness: a live table that ends in 2021, viewed over 2022..2022.
C10_Witness ==
    /\ Viewed
    /\ is_real_data
    /\ view.year_range = <<2022, 2022>>
    /\ 2022 \notin YearsOf(climate_df)
    /\ view.top_countries = <<>>
    /\ view.filtered_df = <<>>

(***************************************************************************)
(* C11.                                                                    *)
(***************************************************************************)
\* C11: the synthetic generator is deterministic: however often it runs and
\* whatever state numpy's global generator is in when it is called (fresh
\* from the system's entropy, or left behind by an earlier run), it builds
\* the same table, record for record; every synthetic table returned or
\* cached is that table.
C11_SampleDeterministic ==
    /\ Cardinality(samples) <= 1
    /\ (BodyRan /\ ~is_real_data) => climate_df \in samples
    /\ \A e \in cache : ~e.flag => e.df \in samples

\* C11 witness: the generator has run twice, the second time from the state
\* the first run left, and one table is all it has built.
C11_Witness ==
    /\ sample_calls >= 2
    /\ rng = [seed |-> 42, pos |-> 345]
    /\ Cardinality(samples) = 1
    /\ BodyRan
    /\ climate_df \in samples

(***************************************************************************)
(* C12.                                                                    *)
(***************************************************************************)
\* the body has returned before, with this flag, at this time
LastFlag == last_result[1].flag

LastAt == last_result[1].at

\* C12: the synthetic fallback is cached like a live result.  Once the body
\* has returned synthetic data, every later call within 3600 s and without a
\* clearing is answered from the cache: the same synthetic table, flagged
\* False, no request sent, whatever the remote host would answer now.  And a
\* call returns a flag other than the previous one only after a clearing or
\* once 3600 s have passed.
C12_FallbackCached ==
    [][ /\ (/\ pc = "idle" /\ pc' # "idle"
            /\ last_result # <<>> /\ ~LastFlag
            /\ ~invalidated
            /\ now - LastAt < 3600) =>
              /\ pc' = "loaded"
              /\ is_real_data' = FALSE
              /\ climate_df' \in samples
              /\ attempts' = <<>>
              /\ fetched' = NoResponse
              /\ remote' = "none"
              /\ cache' = cache
        /\ (/\ pc # "loaded" /\ pc' = "loaded"
            /\ last_result # <<>>
            /\ is_real_data' # LastFlag) =>
              /\ pc = "fetching"
              /\ invalidated \/ now - LastAt >= 3600
      ]_vars

\* C12 witness: a call answered from the cache with the synthetic table, later
\* than the fallback that built it and within its 3600 s.
C12_Witness ==
    /\ Returned
    /\ attempts = <<>>
    /\ ~is_real_data
    /\ climate_df \in samples
    /\ last_result # <<>>
    /\ ~LastFlag
    /\ now > LastAt
    /\ now - LastAt < 3600

====
